---- MODULE Spec2Model ----
(***************************************************************************)
(* A model of the rs-samples snippets:                                     *)
(*   networking/src/main.rs  the serial TCP file server (Spec)             *)
(*   fibonacci/src/main.rs   fib_recursive and fib_dp (FibSpec)            *)
(*   generics/src/main.rs    Point<T>, its Sub and Display (PointSpec)     *)
(* Bytes are their integer codes; a string literal of the source is the    *)
(* sequence of its bytes.                                                  *)
(***************************************************************************)
EXTENDS Integers, Sequences, FiniteSets

VARIABLES
    \* networking: fn main
    pc,            \* position of the single thread
    listener,      \* "none", "bound" or "closed"
    bindAttempts,  \* calls of TcpListener::bind so far
    nAccepted,     \* connections returned by listener.incoming()
    failure,       \* the error an unwrap() panicked on, or "none"
    \* networking: the environment
    backlog,       \* number of clients connected and not yet accepted
    nConnected,    \* clients that have connected so far
    files,         \* the file system: name -> [ok, bytes]
    \* networking: the TcpStream owned by handle_connection
    open,          \* ids of the accepted sockets that are not closed
    conn,          \* id of the stream being handled, 0 before the first
    request,       \* which request the client of conn sends
    consumed,      \* bytes of it taken from the socket by read
    reads,         \* read calls made on the stream
    wire,          \* bytes the stream accepted from write
    flushed,       \* flush was called after the write
    \* networking: locals of handle_connection
    buffer, buf_size, status_line, filename, content, response,
    fsAtOpen,      \* the file system as it was when File::open ran
    \* fibonacci
    fpc, n, rec, f1, f2, total, i, iters, dp,
    \* generics
    ppc, a, b, c, out

mainVars   == <<pc, listener, bindAttempts, nAccepted, failure>>
envVars    == <<backlog, nConnected, files>>
streamVars == <<open, conn, request, consumed, reads, wire, flushed>>
localVars  == <<buffer, buf_size, status_line, filename, content, response, fsAtOpen>>
serverVars == <<mainVars, envVars, streamVars, localVars>>
fibVars    == <<fpc, n, rec, f1, f2, total, i, iters, dp>>
pointVars  == <<ppc, a, b, c, out>>
vars       == <<serverVars, fibVars, pointVars>>

----------------------------------------------------------------------------
(* Bounds of the model *)

\* clients that connect in one run
MaxConns == 2
\* bytes by which the long requests exceed the read buffer
MaxOver == 2
\* largest argument given to the Fibonacci functions
MaxN == 16
\* largest small coordinate of a Point
MaxCoord == 3

----------------------------------------------------------------------------
(* Byte strings *)

Min(x, y) == IF x <= y THEN x ELSE y

Take(s, k) == SubSeq(s, 1, Min(k, Len(s)))

\* [0; k]
Zeros(k) == [j \in 1..k |-> 0]

\* slice::starts_with
StartsWith(s, p) == Len(s) >= Len(p) /\ SubSeq(s, 1, Len(p)) = p

IsPrefix(p, s) == StartsWith(s, p)

\* let mut buffer = [0; 512]
BufSize == 512

\* b"GET / HTTP/1.1\r\n"
get_request == <<71, 69, 84, 32, 47, 32, 72, 84, 84, 80, 47, 49, 46, 49, 13, 10>>

\* "HTTP/1.1 200 OK\r\n\r\n"
STATUS_200 == <<72, 84, 84, 80, 47, 49, 46, 49, 32, 50, 48, 48, 32, 79, 75, 13, 10, 13, 10>>

\* "HTTP/1.1 404 NOT FOUND\r\n\r\n"
STATUS_404 == <<72, 84, 84, 80, 47, 49, 46, 49, 32, 52, 48, 52, 32, 78, 79, 84, 32,
                70, 79, 85, 78, 68, 13, 10, 13, 10>>

SuccessFile == "hello_rust.html"

NotFoundFile == "404.html"

FileNames == {SuccessFile, NotFoundFile}

----------------------------------------------------------------------------
(* The environment's inputs *)

Pad(k) == [j \in 1..k |-> 120]

\* What a client sends before it waits for the answer (or closes).
RequestBytes(r) ==
    CASE r = "root"     -> get_request
      [] r = "rootHost" -> get_request \o <<72, 111, 115, 116, 58, 32, 120, 13, 10, 13, 10>>
      [] r = "foo"      -> <<71, 69, 84, 32, 47, 102, 111, 111, 32, 72, 84, 84, 80, 47,
                             49, 46, 49, 13, 10, 13, 10>>
      [] r = "post"     -> <<80, 79, 83, 84>>
      [] r = "empty"    -> <<>>
      [] r = "rootLong" -> get_request \o Pad(BufSize - Len(get_request) + MaxOver)
      [] r = "fooLong"  -> Pad(BufSize + MaxOver)
      [] OTHER          -> <<>>

RequestNames == {"root", "rootHost", "foo", "post", "empty", "rootLong", "fooLong"}

\* the bytes the client of the current stream sent
data == RequestBytes(request)

Readable(bytes) == [ok |-> TRUE, bytes |-> bytes]

Unreadable == [ok |-> FALSE, bytes |-> <<>>]

\* The states a file can be in: missing or unreadable, or one of a few contents.
FileStates(f) ==
    IF f = SuccessFile
    THEN {Unreadable, Readable(<<104, 105>>), Readable(<<111, 107, 33>>)}
    ELSE {Unreadable, Readable(<<110, 102>>)}

\* Byte counts at which the stream may cut what it hands to one read call.
ReadCuts == {1, Len(get_request) - 1, Len(get_request), BufSize - 1}

\* What one read call into a buffer of cap bytes may return when len bytes were
\* sent: at least one byte, at most what is there and what the buffer holds.
Deliveries(len, cap) ==
    {k \in 1..Min(len, cap) : k \in ReadCuts \/ k = Min(len, cap)}

\* What one write call given len > 0 bytes may return: Ok(k) with 1 <= k <= len.
WriteAccepts(len) == 1..len

----------------------------------------------------------------------------
(* networking: initial state *)

NoLocals ==
    /\ buffer = <<>> /\ buf_size = 0 /\ status_line = <<>> /\ filename = ""
    /\ content = <<>> /\ response = <<>>
    /\ fsAtOpen = [f \in FileNames |-> Unreadable]

NoStream ==
    /\ conn = 0 /\ request = "empty" /\ consumed = 0 /\ reads = 0
    /\ wire = <<>> /\ flushed = FALSE

ServerInit ==
    /\ pc = "bind" /\ listener = "none" /\ bindAttempts = 0 /\ nAccepted = 0
    /\ failure = "none"
    /\ backlog = 0 /\ nConnected = 0
    /\ files = [f \in FileNames |->
                  IF f = SuccessFile THEN Readable(<<104, 105>>) ELSE Readable(<<110, 102>>)]
    /\ open = {}
    /\ NoStream
    /\ NoLocals

----------------------------------------------------------------------------
(* networking: the environment's actions *)

\* A client connects and waits in the listener's backlog.
Connect ==
    /\ listener = "bound"
    /\ nConnected < MaxConns
    /\ backlog' = backlog + 1
    /\ nConnected' = nConnected + 1
    /\ UNCHANGED <<fibVars, pointVars>>
    /\ UNCHANGED <<mainVars, files, streamVars, localVars>>

\* Somebody rewrites, removes or restores one of the two files.
EditFile ==
    /\ \E f \in FileNames : \E v \in FileStates(f) \ {files[f]} :
           files' = [files EXCEPT ![f] = v]
    /\ UNCHANGED <<fibVars, pointVars>>
    /\ UNCHANGED <<mainVars, backlog, nConnected, streamVars, localVars>>

----------------------------------------------------------------------------
(* networking: fn main and fn handle_connection *)

\* unwrap() on an Err: the only thread panics, the process ends and the
\* kernel closes its sockets.
Panic(kind) ==
    /\ failure' = kind
    /\ pc' = "panicked"
    /\ listener' = "closed"
    /\ open' = {}

\* TcpListener::bind("127.0.0.1:8080") returns Ok
BindOk ==
    /\ pc = "bind"
    /\ bindAttempts' = bindAttempts + 1
    /\ listener' = "bound"
    /\ pc' = "accept"
    /\ UNCHANGED <<fibVars, pointVars>>
    /\ UNCHANGED <<nAccepted, failure, envVars, streamVars, localVars>>

\* (mutant) a failed bind is tried again
BindFailRetry ==
    /\ pc = "bind"
    /\ bindAttempts < 3
    /\ bindAttempts' = bindAttempts + 1
    /\ failure' = "BindError"
    /\ UNCHANGED <<fibVars, pointVars>>
    /\ UNCHANGED <<pc, listener, nAccepted, envVars, streamVars, localVars>>

\* TcpListener::bind returns Err (address in use or invalid); unwrap() panics
BindFail ==
    /\ pc = "bind"
    /\ bindAttempts' = bindAttempts + 1
    /\ Panic("BindError")
    /\ UNCHANGED <<fibVars, pointVars>>
    /\ UNCHANGED <<nAccepted, envVars, conn, request, consumed, reads, wire, flushed,
                   localVars>>

\* listener.incoming().next() returns Ok(stream), the oldest waiting client's
\* connection; handle_connection(stream) is entered and its buffer is created.
\* What that client sends is chosen here, where the server first can see it.
Accept ==
    /\ pc = "accept"
    /\ backlog > 0
    /\ nAccepted' = nAccepted + 1
    /\ conn' = nAccepted + 1
    /\ open' = open \cup {nAccepted + 1}
    /\ \E r \in RequestNames : request' = r
    /\ backlog' = backlog - 1
    /\ consumed' = 0 /\ reads' = 0 /\ wire' = <<>> /\ flushed' = FALSE
    /\ buffer' = Zeros(BufSize)
    /\ pc' = "read"
    /\ UNCHANGED <<fibVars, pointVars>>
    /\ UNCHANGED <<listener, bindAttempts, failure, nConnected, files, buf_size,
                   status_line, filename, content, response, fsAtOpen>>

\* listener.incoming().next() returns Err; stream.unwrap() panics
AcceptFail ==
    /\ pc = "accept"
    /\ Panic("AcceptError")
    /\ UNCHANGED <<fibVars, pointVars>>
    /\ UNCHANGED <<bindAttempts, nAccepted, envVars, conn, request, consumed, reads,
                   wire, flushed, localVars>>

\* (mutant) read is called again until the client's bytes are drained
ReadOkDrain ==
    /\ pc = "read"
    /\ consumed < Len(data)
    /\ \E k \in Deliveries(Len(data) - consumed, BufSize) :
          /\ buffer' = SubSeq(data, consumed + 1, consumed + k) \o Zeros(BufSize - k)
          /\ buf_size' = k
          /\ consumed' = consumed + k
          /\ pc' = IF consumed + k < Len(data) THEN "read" ELSE "classify"
    /\ reads' = reads + 1
    /\ UNCHANGED <<fibVars, pointVars>>
    /\ UNCHANGED <<listener, bindAttempts, nAccepted, failure, envVars, open, conn,
                   request, wire, flushed, status_line, filename, content, response,
                   fsAtOpen>>

\* stream.read(&mut buffer) returns Ok(k), k > 0: the first k bytes the client
\* sent are moved into the front of the buffer.
ReadOk ==
    /\ pc = "read"
    /\ Len(data) > 0
    /\ \E k \in Deliveries(Len(data), Len(buffer)) :
          /\ buffer' = Take(data, k) \o SubSeq(buffer, k + 1, Len(buffer))
          /\ buf_size' = k
          /\ consumed' = k
    /\ reads' = reads + 1
    /\ pc' = "classify"
    /\ UNCHANGED <<fibVars, pointVars>>
    /\ UNCHANGED <<listener, bindAttempts, nAccepted, failure, envVars, open, conn,
                   request, wire, flushed, status_line, filename, content, response,
                   fsAtOpen>>

\* stream.read(&mut buffer) returns Ok(0): the client sent nothing and closed.
\* unwrap() yields 0 and the handler goes on.
ReadEof ==
    /\ pc = "read"
    /\ Len(data) = 0
    /\ buf_size' = 0
    /\ reads' = reads + 1
    /\ pc' = "classify"
    /\ UNCHANGED <<fibVars, pointVars>>
    /\ UNCHANGED <<listener, bindAttempts, nAccepted, failure, envVars, open, conn,
                   request, consumed, wire, flushed, buffer, status_line, filename,
                   content, response, fsAtOpen>>

\* (mutant) the read error is swallowed and the handler goes on with the
\* untouched buffer
ReadErrIgnored ==
    /\ pc = "read"
    /\ failure' = "ReadError"
    /\ buf_size' = 0
    /\ reads' = reads + 1
    /\ pc' = "classify"
    /\ UNCHANGED <<fibVars, pointVars>>
    /\ UNCHANGED <<listener, bindAttempts, nAccepted, envVars, open, conn, request,
                   consumed, wire, flushed, buffer, status_line, filename, content,
                   response, fsAtOpen>>

\* stream.read(&mut buffer) returns Err (connection reset); unwrap() panics
ReadErr ==
    /\ pc = "read"
    /\ reads' = reads + 1
    /\ Panic("ReadError")
    /\ UNCHANGED <<fibVars, pointVars>>
    /\ UNCHANGED <<bindAttempts, nAccepted, envVars, conn, request, consumed, wire,
                   flushed, localVars>>

\* if buffer.starts_with(get_request) { 200 } else { 404 }
Classify(buf) ==
    IF StartsWith(buf, get_request)
    THEN [status_line |-> STATUS_200, filename |-> SuccessFile]
    ELSE [status_line |-> STATUS_404, filename |-> NotFoundFile]

\* The request is classified, the chosen file is opened and read to its end,
\* and the response is formatted.
Load ==
    /\ pc = "classify"
    /\ LET cl == Classify(buffer) IN
          /\ files[cl.filename].ok
          /\ status_line' = cl.status_line
          /\ filename' = cl.filename
          /\ content' = files[cl.filename].bytes
          /\ response' = cl.status_line \o files[cl.filename].bytes
    /\ fsAtOpen' = files
    /\ pc' = "write"
    /\ UNCHANGED <<fibVars, pointVars>>
    /\ UNCHANGED <<listener, bindAttempts, nAccepted, failure, envVars, streamVars,
                   buffer, buf_size>>

\* (mutant) the handler gives the connection up and main accepts the next one
LoadFailCaught ==
    /\ pc = "classify"
    /\ LET cl == Classify(buffer) IN
          /\ ~files[cl.filename].ok
          /\ status_line' = cl.status_line
          /\ filename' = cl.filename
    /\ fsAtOpen' = files
    /\ failure' = "FileReadError"
    /\ open' = open \ {conn}
    /\ pc' = "accept"
    /\ UNCHANGED <<fibVars, pointVars>>
    /\ UNCHANGED <<listener, bindAttempts, nAccepted, envVars, conn, request, consumed,
                   reads, wire, flushed, buffer, buf_size, content, response>>

\* File::open(filename) or read_to_string returns Err; unwrap() panics
LoadFail ==
    /\ pc = "classify"
    /\ LET cl == Classify(buffer) IN
          /\ ~files[cl.filename].ok
          /\ status_line' = cl.status_line
          /\ filename' = cl.filename
    /\ fsAtOpen' = files
    /\ Panic("FileReadError")
    /\ UNCHANGED <<fibVars, pointVars>>
    /\ UNCHANGED <<bindAttempts, nAccepted, envVars, conn, request, consumed, reads,
                   wire, flushed, buffer, buf_size, content, response>>

\* stream.write(response.as_bytes()) returns Ok(k): the stream took the first k
\* bytes; the returned count is discarded by unwrap().
Write ==
    /\ pc = "write"
    /\ \E k \in WriteAccepts(Len(response)) : wire' = wire \o Take(response, k)
    /\ pc' = "flush"
    /\ UNCHANGED <<fibVars, pointVars>>
    /\ UNCHANGED <<listener, bindAttempts, nAccepted, failure, envVars, open, conn,
                   request, consumed, reads, flushed, localVars>>

\* stream.write returns Err (the client is gone); unwrap() panics
WriteErr ==
    /\ pc = "write"
    /\ Panic("WriteError")
    /\ UNCHANGED <<fibVars, pointVars>>
    /\ UNCHANGED <<bindAttempts, nAccepted, envVars, conn, request, consumed, reads,
                   wire, flushed, localVars>>

\* stream.flush(): a TcpStream holds no buffer of its own, flush returns Ok(())
Flush ==
    /\ pc = "flush"
    /\ flushed' = TRUE
    /\ pc' = "drop"
    /\ UNCHANGED <<fibVars, pointVars>>
    /\ UNCHANGED <<listener, bindAttempts, nAccepted, failure, envVars, open, conn,
                   request, consumed, reads, wire, localVars>>

\* (mutant) the handler returns and the stream is kept open
ReturnLeak ==
    /\ pc = "drop"
    /\ buffer' = <<>> /\ buf_size' = 0 /\ status_line' = <<>> /\ filename' = ""
    /\ content' = <<>> /\ response' = <<>>
    /\ fsAtOpen' = [f \in FileNames |-> Unreadable]
    /\ request' = "empty" /\ consumed' = 0 /\ reads' = 0 /\ wire' = <<>>
    /\ flushed' = FALSE
    /\ pc' = "accept"
    /\ UNCHANGED <<fibVars, pointVars>>
    /\ UNCHANGED <<listener, bindAttempts, nAccepted, failure, envVars, open, conn>>

\* handle_connection returns: its locals go out of scope, the stream is dropped
\* and with it the socket is closed; main goes round its loop.
Return ==
    /\ pc = "drop"
    /\ open' = open \ {conn}
    /\ buffer' = <<>> /\ buf_size' = 0 /\ status_line' = <<>> /\ filename' = ""
    /\ content' = <<>> /\ response' = <<>>
    /\ fsAtOpen' = [f \in FileNames |-> Unreadable]
    /\ request' = "empty" /\ consumed' = 0 /\ reads' = 0 /\ wire' = <<>>
    /\ flushed' = FALSE
    /\ pc' = "accept"
    /\ UNCHANGED <<fibVars, pointVars>>
    /\ UNCHANGED <<listener, bindAttempts, nAccepted, failure, envVars, conn>>

ServerNext ==
    \/ Connect \/ EditFile
    \/ BindOk \/ BindFail
    \/ Accept \/ AcceptFail
    \/ ReadOk \/ ReadEof \/ ReadErr
    \/ Load \/ LoadFail
    \/ Write \/ WriteErr
    \/ Flush
    \/ Return

----------------------------------------------------------------------------
(* fibonacci: fib_recursive, fib_dp and the two calls of main *)

\* fn fib_recursive(n: usize) -> usize
RECURSIVE fib_recursive(_)
fib_recursive(k) ==
    IF k = 0 THEN 0
    ELSE IF k = 1 THEN 1
    ELSE fib_recursive(k - 1) + fib_recursive(k - 2)

FibIdle ==
    /\ fpc = "idle" /\ n = 0 /\ rec = 0 /\ f1 = 0 /\ f2 = 0 /\ total = 0 /\ i = 0
    /\ iters = 0 /\ dp = 0

\* main has parsed n from the line read on stdin
FibInit ==
    /\ fpc = "start" /\ n \in 0..MaxN
    /\ rec = 0 /\ f1 = 0 /\ f2 = 0 /\ total = 0 /\ i = 0 /\ iters = 0 /\ dp = 0

\* println!(.., fib_recursive(n))
FibCallRecursive ==
    /\ fpc = "start"
    /\ rec' = fib_recursive(n)
    /\ fpc' = "dp_enter"
    /\ UNCHANGED <<serverVars, pointVars>>
    /\ UNCHANGED <<n, f1, f2, total, i, iters, dp>>

\* fib_dp: if n == 0 || n == 1 { n }
FibDpBase ==
    /\ fpc = "dp_enter"
    /\ n = 0 \/ n = 1
    /\ dp' = n
    /\ fpc' = "done"
    /\ UNCHANGED <<serverVars, pointVars>>
    /\ UNCHANGED <<n, rec, f1, f2, total, i, iters>>

\* fib_dp: else { let mut f1 = 0; let mut f2 = 1; let mut total = 0; for _ in 2..
FibDpEnter ==
    /\ fpc = "dp_enter"
    /\ ~(n = 0 \/ n = 1)
    /\ f1' = 0 /\ f2' = 1 /\ total' = 0
    /\ i' = 2
    /\ fpc' = "loop"
    /\ UNCHANGED <<serverVars, pointVars>>
    /\ UNCHANGED <<n, rec, iters, dp>>

\* (mutant) f1 is not moved on
FibDpLoopStale ==
    /\ fpc = "loop"
    /\ i < n + 1
    /\ total' = f1 + f2
    /\ f1' = f1
    /\ f2' = f1 + f2
    /\ i' = i + 1
    /\ iters' = iters + 1
    /\ UNCHANGED <<serverVars, pointVars>>
    /\ UNCHANGED <<fpc, n, rec, dp>>

\* one turn of for _ in 2..(n + 1) { total = f1 + f2; f1 = f2; f2 = total; }
FibDpLoop ==
    /\ fpc = "loop"
    /\ i < n + 1
    /\ total' = f1 + f2
    /\ f1' = f2
    /\ f2' = f1 + f2
    /\ i' = i + 1
    /\ iters' = iters + 1
    /\ UNCHANGED <<serverVars, pointVars>>
    /\ UNCHANGED <<fpc, n, rec, dp>>

\* the range is exhausted; fib_dp returns total
FibDpExit ==
    /\ fpc = "loop"
    /\ ~(i < n + 1)
    /\ dp' = total
    /\ fpc' = "done"
    /\ UNCHANGED <<serverVars, pointVars>>
    /\ UNCHANGED <<n, rec, f1, f2, total, i, iters>>

FibNext == FibCallRecursive \/ FibDpBase \/ FibDpEnter \/ FibDpLoop \/ FibDpExit

----------------------------------------------------------------------------
(* generics: Point<T>, ops::Sub, fmt::Display and main *)

\* struct Point<T> { x: T, y: T }
Point(px, py) == [x |-> px, y |-> py]

\* impl ops::Sub for Point<T>
Sub(p, q) == Point(p.x - q.x, p.y - q.y)

\* "{}" of a non-negative integer: its decimal digits
RECURSIVE Digits(_)
Digits(v) == IF v < 10 THEN <<48 + v>> ELSE Digits(v \div 10) \o <<48 + (v % 10)>>

\* "{}" of an integer
Dec(v) == IF v < 0 THEN <<45>> \o Digits(0 - v) ELSE Digits(v)

\* impl fmt::Display for Point<T>: write!(f, "x:{}, y:{}", self.x, self.x)
Display(p) == <<120, 58>> \o Dec(p.x) \o <<44, 32, 121, 58>> \o Dec(p.x)

\* the coordinates main is tried with: its own 2, 3, 12, 13 and the small ones
Coords == (0..MaxCoord) \cup {2, 3, 12, 13}

PointIdle ==
    /\ ppc = "idle" /\ a = Point(0, 0) /\ b = Point(0, 0) /\ c = Point(0, 0)
    /\ out = <<>>

\* let a = Point{..}; let b = Point{..};
PointInit ==
    /\ ppc = "start"
    /\ a \in {Point(px, py) : px \in Coords, py \in Coords}
    /\ b \in {Point(px, py) : px \in Coords, py \in Coords}
    /\ c = Point(0, 0)
    /\ out = <<>>

\* let c = a - b;
PointSub ==
    /\ ppc = "start"
    /\ c' = Sub(a, b)
    /\ ppc' = "print"
    /\ UNCHANGED <<serverVars, fibVars>>
    /\ UNCHANGED <<a, b, out>>

\* println!("Point c: {}", c);
PointPrint ==
    /\ ppc = "print"
    /\ out' = <<80, 111, 105, 110, 116, 32, 99, 58, 32>> \o Display(c) \o <<10>>
    /\ ppc' = "done"
    /\ UNCHANGED <<serverVars, fibVars>>
    /\ UNCHANGED <<a, b, c>>

PointNext == PointSub \/ PointPrint

----------------------------------------------------------------------------
(* The three programs *)

ServerIdle ==
    /\ pc = "idle" /\ listener = "none" /\ bindAttempts = 0 /\ nAccepted = 0
    /\ failure = "none" /\ backlog = 0 /\ nConnected = 0
    /\ files = [f \in FileNames |-> Unreadable]
    /\ open = {}
    /\ NoStream
    /\ NoLocals

Init == ServerInit /\ FibIdle /\ PointIdle

Next == ServerNext

Spec == Init /\ [][Next]_vars

FibSpecInit == FibInit /\ ServerIdle /\ PointIdle

FibSpec == FibSpecInit /\ [][FibNext]_vars

PointSpecInit == PointInit /\ ServerIdle /\ FibIdle

PointSpec == PointSpecInit /\ [][PointNext]_vars

----------------------------------------------------------------------------
(* Properties *)

InHandler == pc \in {"read", "classify", "write", "flush", "drop"}

AfterRead == pc \in {"classify", "write", "flush", "drop"}

\* C1: a connection whose request begins with GET / HTTP/1.1\r\n is answered with
\* exactly the 200 status line followed by the success file as it was when the
\* connection was handled, however the request's bytes were delivered to the
\* read. Stated for the connections whose write took the whole response, so
\* that it is the read and the classification that decide it.
C1_RootRequestGets200 ==
    (pc = "drop" /\ StartsWith(data, get_request) /\ Len(wire) = Len(response))
        => wire = STATUS_200 \o fsAtOpen[SuccessFile].bytes

\* C2: a connection whose request does not begin with GET / HTTP/1.1\r\n is
\* answered with exactly the 404 status line followed by the 404 file.
C2_OtherRequestGets404 ==
    (pc = "drop" /\ ~StartsWith(data, get_request))
        => wire = STATUS_404 \o fsAtOpen[NotFoundFile].bytes

\* C3: at most one accepted connection is open at any time: none while main is
\* binding, waiting in accept or gone, and only the one being handled while
\* handle_connection runs, so every earlier one was closed before the accept.
C3_OneConnectionAtATime ==
    /\ Cardinality(open) <= 1
    /\ ~InHandler => open = {}
    /\ InHandler => open = {conn} /\ conn = nAccepted

\* C3 witness: the second connection is being handled and the first is closed.
C3_SecondConnectionHandled == pc = "read" /\ nAccepted = 2 /\ open = {2}

\* C4 as stated: a read that returns 0 bytes or an error leaves the connection
\* without any response byte.
C4_ZeroOrErrorReadNoResponse ==
    ((AfterRead /\ buf_size = 0) \/ failure = "ReadError") => wire = <<>>

\* C4 amended: a read that returns an error panics, no response byte is
\* written and the socket is closed; a read that returns 0 bytes is no error,
\* it is classified as a non-matching request and answered from the 404 file.
C4_ErrorReadNoResponseZeroRead404 ==
    /\ failure = "ReadError" =>
          wire = <<>> /\ pc = "panicked" /\ open = {} /\ reads = 1
    /\ (AfterRead /\ buf_size = 0) => failure = "none" /\ open = {conn}
    /\ (pc \in {"write", "flush", "drop"} /\ buf_size = 0) =>
          /\ status_line = STATUS_404
          /\ filename = NotFoundFile
          /\ response = STATUS_404 \o fsAtOpen[NotFoundFile].bytes
    /\ (pc = "drop" /\ buf_size = 0) => wire # <<>> /\ IsPrefix(wire, response)

\* C4 witness: a read returned an error on an accepted connection.
C4_ReadErrorHappened ==
    failure = "ReadError" /\ conn >= 1 /\ reads = 1 /\ wire = <<>> /\ open = {}

\* C5 as stated: after a ReadError or a FileReadError the process is still
\* running.
C5_FailureLeavesServerRunning ==
    failure \in {"ReadError", "FileReadError"} => pc # "panicked" /\ listener = "bound"

\* a step taken after a ReadError or FileReadError is not a step of the server
ServerStaysDead ==
    failure \in {"ReadError", "FileReadError"} =>
        UNCHANGED <<mainVars, backlog, nConnected, streamVars, localVars>>

\* C5 amended: a ReadError or a FileReadError ends the process: the listener is
\* closed with it, and from then on no connection is accepted or handled.
C5_FailureEndsProcess ==
    /\ [](failure \in {"ReadError", "FileReadError"} =>
              pc = "panicked" /\ listener = "closed" /\ open = {})
    /\ [][ServerStaysDead]_vars

\* C5 witness: the success file was unreadable while a connection was served,
\* and another client is still waiting.
C5_FileReadErrorHappened ==
    failure = "FileReadError" /\ pc = "panicked" /\ conn >= 1 /\ backlog >= 1

\* C6: when the bind fails the process ends: bind was called exactly once, and
\* no connection is accepted or handled.
C6_BindFailureIsFatal ==
    /\ bindAttempts <= 1
    /\ pc # "bind" => bindAttempts = 1
    /\ failure = "BindError" =>
          /\ pc = "panicked" /\ listener = "closed"
          /\ nAccepted = 0 /\ nConnected = 0 /\ conn = 0 /\ open = {}
          /\ reads = 0 /\ wire = <<>>

\* C6 witness: the bind has failed.
C6_BindFailed == failure = "BindError" /\ bindAttempts = 1 /\ pc = "panicked"

\* C7: a connection is read exactly once, into the 512-byte buffer: what was
\* consumed is a prefix of at most 512 bytes of what the client sent, it is
\* what the classification sees, and nothing more is read before the close.
C7_OneBoundedRead ==
    /\ reads <= 1
    /\ pc = "read" => reads = 0 /\ consumed = 0
    /\ AfterRead =>
          /\ reads = 1
          /\ Len(buffer) = BufSize
          /\ buf_size = consumed
          /\ consumed <= BufSize /\ consumed <= Len(data)
          /\ buffer = SubSeq(data, 1, consumed) \o Zeros(BufSize - consumed)

\* C7 witness: a request longer than the buffer was handled to the end with
\* 512 bytes consumed and the rest never read.
C7_LongRequestTruncated ==
    pc = "drop" /\ Len(data) > BufSize /\ consumed = BufSize /\ reads = 1

\* C8: when the handler returns, the whole of status line ++ body has been
\* written to the connection and flushed.
C8_WholeResponseWritten ==
    pc = "drop" => flushed /\ wire = response /\ response = status_line \o content

\* C9: fib_dp(n) is fib_recursive(n), the n-th Fibonacci number; the loop runs
\* n - 1 times, once for n = 2, and not at all for n = 0 and n = 1.
C9_FibDpEqualsFibRecursive ==
    fpc = "done" =>
        /\ dp = rec
        /\ rec = fib_recursive(n)
        /\ n = 0 => dp = 0
        /\ n = 1 => dp = 1
        /\ n = 2 => dp = 1
        /\ iters = (IF n < 2 THEN 0 ELSE n - 1)

\* C9 witness: fib_dp(10) has returned 55 after 9 turns of its loop.
C9_FibTenComputed == fpc = "done" /\ n = 10 /\ dp = 55 /\ iters = 9

\* C10: a Point is printed as x:<its x>, y:<its y>, so a - b is printed with
\* a.x - b.x after x: and a.y - b.y after y:.
C10_DisplayShowsXAndY ==
    ppc = "done" =>
        out = <<80, 111, 105, 110, 116, 32, 99, 58, 32>> \o <<120, 58>>
              \o Dec(a.x - b.x) \o <<44, 32, 121, 58>> \o Dec(a.y - b.y) \o <<10>>

====
